---- MODULE Spec2Model ----
(***************************************************************************)
(* zod-csv: batch CSV validation (parseCSVContent) and the chunked stream  *)
(* processor (CSVStream).  Text is a sequence of one-character tokens.     *)
(***************************************************************************)
EXTENDS Integers, Sequences, FiniteSets, TLC

(* ------------------------------------------------------------------ *)
(* Characters and JavaScript string helpers                            *)
(* ------------------------------------------------------------------ *)
LF == "LF"
CR == "CR"
DQ == "DQ"
SQ == "SQ"
SP == "SP"
BS == "BS"
EOS == ""
\* JavaScript undefined, as a cell value and as an option value
UNDEF == <<"undefined">>
NoOpt == "undefined"

charAt(s, p) == IF p >= 0 /\ p < Len(s) THEN s[p + 1] ELSE EOS
slice(s, a, b) == SubSeq(s, a + 1, b)
Range(s) == {s[i] : i \in 1..Len(s)}

\* first position >= p whose character is in cs, -1 when there is none
RECURSIVE indexOfFrom(_, _, _)
indexOfFrom(s, p, cs) ==
    IF p >= Len(s) THEN -1
    ELSE IF s[p + 1] \in cs THEN p
    ELSE indexOfFrom(s, p + 1, cs)

WhiteSpace == {SP, LF, CR}
RECURSIVE trimStart(_)
trimStart(s) == IF Len(s) > 0 /\ Head(s) \in WhiteSpace THEN trimStart(Tail(s)) ELSE s
RECURSIVE trimEnd(_)
trimEnd(s) ==
    IF Len(s) > 0 /\ s[Len(s)] \in WhiteSpace THEN trimEnd(SubSeq(s, 1, Len(s) - 1)) ELSE s
trim(s) == trimEnd(trimStart(s))

\* Array.prototype.join over strings
RECURSIVE join(_, _)
join(names, sep) ==
    IF Len(names) = 0 THEN <<>>
    ELSE IF Len(names) = 1 THEN names[1]
    ELSE names[1] \o sep \o join(Tail(names), sep)

(* ------------------------------------------------------------------ *)
(* The tokenizer (csv-string's parse, used through ./parse)            *)
(* ------------------------------------------------------------------ *)
Separators == <<",", ";">>
ResidueChars == {SP}

\* the separator that occurs first in the input, "," when none occurs
detect(input) ==
    LET idx == indexOfFrom(input, 0, Range(Separators))
    IN IF idx = -1 THEN "," ELSE input[idx + 1]

RECURSIVE Residue(_, _)
Residue(input, p) ==
    IF p < Len(input) /\ input[p + 1] \in ResidueChars THEN Residue(input, p + 1) ELSE p

\* position just after the closing quote of a quoted value, -1 when it never closes
RECURSIVE QuotedValue(_, _, _)
QuotedValue(input, i, quote) ==
    LET j == indexOfFrom(input, i, {quote})
    IN IF j = -1 THEN -1
       ELSE IF charAt(input, j + 1) = quote THEN QuotedValue(input, j + 2, quote)
       ELSE j + 1

\* String.replace(/qq/g, q)
RECURSIVE replaceQuote(_, _)
replaceQuote(s, quote) ==
    IF Len(s) = 0 THEN <<>>
    ELSE IF Len(s) >= 2 /\ s[1] = quote /\ s[2] = quote
         THEN <<quote>> \o replaceQuote(SubSeq(s, 3, Len(s)), quote)
    ELSE <<s[1]>> \o replaceQuote(Tail(s), quote)

SimpleValue(input, p, comma) ==
    LET index == indexOfFrom(input, p, {comma, CR, LF})
    IN IF index = -1 THEN Len(input) ELSE index

Value(input, p, comma, quote) ==
    LET p1 == Residue(input, p)
        qe == IF charAt(input, p1) = quote THEN QuotedValue(input, p1 + 1, quote) ELSE -1
        se == SimpleValue(input, p1, comma)
    IN IF qe # -1
       THEN [v |-> replaceQuote(slice(input, p1 + 1, qe - 1), quote), p |-> Residue(input, qe)]
       ELSE IF charAt(input, p1) = quote \/ se = p1
            THEN [v |-> <<>>, p |-> p1]
            ELSE [v |-> slice(input, p, se), p |-> se]

LineEnd(input, p) ==
    IF charAt(input, p) = CR /\ charAt(input, p + 1) = LF THEN 2
    ELSE IF charAt(input, p) = LF THEN 1
    ELSE IF charAt(input, p) = CR THEN 1
    ELSE 0

RECURSIVE Row(_, _, _, _, _)
Row(input, p, comma, quote, acc) ==
    LET after(row, q) ==
            IF charAt(input, q) = comma THEN Row(input, q + 1, comma, quote, row)
            ELSE IF LineEnd(input, q) > 0 THEN [row |-> row, p |-> q + LineEnd(input, q)]
            ELSE IF q >= Len(input) THEN [row |-> row, p |-> q]
            ELSE [row |-> acc, p |-> q]
        pushed(val) == after(Append(acc, val.v), val.p)
    IN pushed(Value(input, p, comma, quote))

RECURSIVE File(_, _, _, _, _, _)
File(input, p, linePointer, files, comma, quote) ==
    LET after(r) ==
            IF Len(r.row) > 0
            THEN IF r.p >= Len(input) THEN Append(files, r.row)
                 ELSE File(input, r.p, p, Append(files, r.row), comma, quote)
            ELSE IF linePointer # 0 /\ r.p # Len(input)
                 THEN SubSeq(files, 1, Len(files) - 1)
                 ELSE files
    IN after(Row(input, p, comma, quote, <<>>))

\* csv.parse(input, options)
csv_parse(input, options) ==
    LET comma == IF options.comma = NoOpt THEN detect(input) ELSE options.comma
        quote == IF options.quote = NoOpt THEN DQ ELSE options.quote
    IN File(input, 0, 0, <<>>, comma, quote)

NoOptions == [comma |-> NoOpt, quote |-> NoOpt, skipEmptyLines |-> FALSE]

(* ------------------------------------------------------------------ *)
(* ./parse : extractHeadersFromContent, extractRows                    *)
(* ------------------------------------------------------------------ *)
\* an undefined string[] (destructuring the first row of an empty parse result)
UndefinedHeaders == <<UNDEF>>

skipEmptyLines(rows) ==
    SelectSeq(rows, LAMBDA row : \A i \in 1..Len(row) : Len(row[i]) > 0)

\* the first row tokenized with the default delimiter and quote, whatever the options
extractHeadersFromContent_defaults(csvContent, options) ==
    LET first(parsed) == IF Len(parsed) = 0 THEN UndefinedHeaders ELSE parsed[1]
    IN first(csv_parse(csvContent, NoOptions))

extractHeadersFromContent(csvContent, options) ==
    LET first(parsed) == IF Len(parsed) = 0 THEN UndefinedHeaders ELSE parsed[1]
    IN first(csv_parse(csvContent, options))

extractRows(csvContent, options) ==
    LET rest(parsed) == IF Len(parsed) = 0 THEN <<>> ELSE Tail(parsed)
        filtered(rows) == IF options.skipEmptyLines THEN skipEmptyLines(rows) ELSE rows
    IN filtered(rest(csv_parse(csvContent, options)))

(* ------------------------------------------------------------------ *)
(* Schemas: an object schema is its ordered fields, each with the rule *)
(* of the helper that validates the cell                               *)
(* ------------------------------------------------------------------ *)
\* zcsv.string(): "" is stripped to undefined, then a string is required
\* zcsv.string(z.string().optional()): "" is stripped to undefined, undefined passes
\* z.string(): any string passes, "" included
Kinds == {"string", "optional", "plain"}

getHeadersFromSchema(schema) == [i \in 1..Len(schema) |-> trim(schema[i].name)]

\* the object built by keys.reduce((o, k, i) => { o[k] = values[i]; return o }, {})
reduceToObject(keys, values) ==
    [k \in Range(keys) |->
        values[CHOOSE i \in 1..Len(keys) :
                    keys[i] = k /\ \A j \in 1..Len(keys) : keys[j] = k => j <= i]]

fieldInput(row, name) == IF name \in DOMAIN row THEN row[name] ELSE UNDEF

stripEmpty(v) == IF v = <<>> THEN UNDEF ELSE v

fieldOutput(kind, v) == IF kind = "plain" THEN v ELSE stripEmpty(v)

fieldFails(kind, v) ==
    IF kind = "optional" THEN FALSE ELSE fieldOutput(kind, v) = UNDEF

\* schema.safeParse(row): the validated value, or the issue paths in schema order
safeParse(schema, row) ==
    LET names == [i \in 1..Len(schema) |-> schema[i].name]
        bad == SelectSeq(schema, LAMBDA f : fieldFails(f.kind, fieldInput(row, f.name)))
    IN IF Len(bad) = 0
       THEN [success |-> TRUE,
             data |-> reduceToObject(names,
                        [i \in 1..Len(schema) |->
                            fieldOutput(schema[i].kind, fieldInput(row, schema[i].name))]),
             error |-> <<>>]
       ELSE [success |-> FALSE,
             data |-> <<>>,
             error |-> [i \in 1..Len(bad) |-> bad[i].name]]

getRowValidation(row, schema) == safeParse(schema, row)

(* ------------------------------------------------------------------ *)
(* csv-utils.ts : zodKeys over schema trees.  A schema is its zod      *)
(* class with its shape (objects) or the schema it wraps               *)
(* ------------------------------------------------------------------ *)
ZodString == [type |-> "string", fields |-> <<>>, inner |-> <<>>]
ZodUndefined == [type |-> "undefined", fields |-> <<>>, inner |-> <<>>]
ZodObject(fields) == [type |-> "object", fields |-> fields, inner |-> <<>>]
ZodOptional(s) == [type |-> "optional", fields |-> <<>>, inner |-> <<s>>]
ZodNullable(s) == [type |-> "nullable", fields |-> <<>>, inner |-> <<s>>]
ZodArray(s) == [type |-> "array", fields |-> <<>>, inner |-> <<s>>]
ZodEffects(s) == [type |-> "effects", fields |-> <<>>, inner |-> <<s>>]
ShapeEntry(key, value) == [key |-> <<key>>, value |-> value]

\* `${key}.${subKey}` for every subKey
dotted(key, subKeys) == [i \in 1..Len(subKeys) |-> key \o <<".">> \o subKeys[i]]

\* zodKeys that takes a refined schema for a schema without fields
RECURSIVE zodKeys_effectsIgnored(_)
zodKeys_effectsIgnored(s) ==
    LET nestedOr(key, nested) == IF Len(nested) > 0 THEN nested ELSE <<key>>
        RECURSIVE flat(_)
        flat(entries) ==
            IF Len(entries) = 0 THEN <<>>
            ELSE nestedOr(Head(entries).key,
                          dotted(Head(entries).key, zodKeys_effectsIgnored(Head(entries).value)))
                    \o flat(Tail(entries))
    IN IF s.type \in {"null", "undefined"} THEN <<>>
       ELSE IF s.type \in {"nullable", "optional"} THEN zodKeys_effectsIgnored(s.inner[1])
       ELSE IF s.type = "array" THEN zodKeys_effectsIgnored(s.inner[1])
       ELSE IF s.type = "object" THEN flat(s.fields)
       ELSE <<>>

RECURSIVE zodKeys(_)
zodKeys(s) ==
    LET nestedOr(key, nested) == IF Len(nested) > 0 THEN nested ELSE <<key>>
        \* entries.flatMap(([key, value]) => nested.length ? nested : key)
        RECURSIVE flat(_)
        flat(entries) ==
            IF Len(entries) = 0 THEN <<>>
            ELSE nestedOr(Head(entries).key,
                          dotted(Head(entries).key, zodKeys(Head(entries).value)))
                    \o flat(Tail(entries))
    IN IF s.type \in {"null", "undefined"} THEN <<>>
       ELSE IF s.type \in {"nullable", "optional"} THEN zodKeys(s.inner[1])
       ELSE IF s.type = "array" THEN zodKeys(s.inner[1])
       ELSE IF s.type = "object" THEN flat(s.fields)
       ELSE IF s.type = "effects"
            THEN IF s.inner[1].type # "object" THEN zodKeys(s.inner[1])
                 ELSE flat(s.inner[1].fields)
       ELSE <<>>

(* ------------------------------------------------------------------ *)
(* helpers.ts : zcsv.string, number, boolean, date over zod values.    *)
(* A value is its zod type with its text (strings, dates) or its       *)
(* number (numbers; 1 and 0 for true and false, for a valid and an     *)
(* invalid date)                                                       *)
(* ------------------------------------------------------------------ *)
Undefined == [type |-> "undefined", text |-> <<>>, n |-> 0]
Str(text) == [type |-> "string", text |-> text, n |-> 0]
Num(n) == [type |-> "number", text |-> <<>>, n |-> n]
NaN == [type |-> "nan", text |-> <<>>, n |-> 0]
Bool(b) == [type |-> "boolean", text |-> <<>>, n |-> IF b THEN 1 ELSE 0]
DateOf(text, valid) == [type |-> "date", text |-> text, n |-> IF valid THEN 1 ELSE 0]

Valid(data) == [success |-> TRUE, data |-> data]
Invalid == [success |-> FALSE, data |-> Undefined]

\* z.union([a, b]).safeParse: the first option that accepts the value
union(a, b) == IF a.success THEN a ELSE b

\* z.literal("").transform(() => undefined), as safeParse
stripEmpty_safeParse(val) == IF val = Str(<<>>) THEN Valid(Undefined) ELSE Invalid

\* preprocessIfValid(schema)(val), given schema.safeParse(val)
preprocessIfValid(parsed, val) == IF parsed.success THEN parsed.data ELSE val

Digits == {"0", "1", "2"}
digitValue(c) == IF c = "0" THEN 0 ELSE IF c = "1" THEN 1 ELSE 2
RECURSIVE digitsValue(_)
digitsValue(text) ==
    IF Len(text) = 0 THEN 0
    ELSE 10 * digitsValue(SubSeq(text, 1, Len(text) - 1)) + digitValue(text[Len(text)])

\* Number(text): white space is trimmed, the empty text is 0, a text that is not a
\* numeral is NaN
Number(text) ==
    LET numeral(t) ==
            IF Len(t) = 0 THEN Num(0)
            ELSE IF Range(t) \subseteq Digits THEN Num(digitsValue(t))
            ELSE IF Head(t) = "-" /\ Len(t) > 1 /\ Range(Tail(t)) \subseteq Digits
                 THEN Num(0 - digitsValue(Tail(t)))
            ELSE NaN
    IN numeral(trim(text))

\* z.string().transform((val) => Number(val)).refine((val) => !Number.isNaN(val))
numberFromString(val) ==
    IF val.type = "string" /\ Number(val.text) # NaN THEN Valid(Number(val.text)) ELSE Invalid

\* z.literal('true').transform(() => true), z.literal('false').transform(() => false)
TrueText == <<"t", "r", "u", "e">>
FalseText == <<"f", "a", "l", "s", "e">>
trueFromString(val) == IF val = Str(TrueText) THEN Valid(Bool(TRUE)) ELSE Invalid
falseFromString(val) == IF val = Str(FalseText) THEN Valid(Bool(FALSE)) ELSE Invalid

\* new Date(text): an ISO date is a valid date in every engine, a text without a
\* digit is an invalid date in every engine, any other text is valid or not as the
\* engine's legacy parser decides
IsoDateText == <<"2", "0", "2", "1", "-", "0", "1", "-", "0", "1">>
newDate(text, lenient) ==
    DateOf(text, text = IsoDateText \/ (lenient /\ Range(text) \cap Digits # {}))

\* z.string().transform((val) => new Date(val)).refine((val) => isDate(val)):
\* an invalid date is an instance of Date as well
dateFromString(val, lenient) ==
    IF val.type = "string" THEN Valid(newDate(val.text, lenient)) ELSE Invalid

\* the schemas a helper wraps: z.T(), z.T().optional(), z.T().optional().default(d)
Helpers == {"string", "number", "boolean", "date"}
Wrapped == {"required", "optional", "default"}
defaultOf(base) ==
    IF base = "string" THEN Str(<<"d">>)
    ELSE IF base = "number" THEN Num(1)
    ELSE IF base = "boolean" THEN Bool(TRUE)
    ELSE DateOf(IsoDateText, TRUE)

\* z.string() / z.number() / z.boolean() / z.date() accept a value of their type;
\* NaN is not a number and an invalid date is not a date
baseAccepts(base, val) == val.type = base /\ (base = "date" => val.n = 1)

\* wrapped.safeParse(val)
wrapped_safeParse(base, wrapped, val) ==
    IF val = Undefined /\ wrapped = "default" THEN Valid(defaultOf(base))
    ELSE IF val = Undefined /\ wrapped = "optional" THEN Valid(Undefined)
    ELSE IF baseAccepts(base, val) THEN Valid(val)
    ELSE Invalid

\* zcsv.string(schema).safeParse(val)
string(wrapped, val) ==
    wrapped_safeParse("string", wrapped, preprocessIfValid(stripEmpty_safeParse(val), val))

\* zcsv.number with Number() tried before the empty cell is stripped
number_coercedFirst(wrapped, val) ==
    wrapped_safeParse("number", wrapped,
        preprocessIfValid(union(numberFromString(val), stripEmpty_safeParse(val)), val))

\* zcsv.number(schema).safeParse(val)
number(wrapped, val) ==
    wrapped_safeParse("number", wrapped,
        preprocessIfValid(union(stripEmpty_safeParse(val), numberFromString(val)), val))

\* zcsv.boolean(schema).safeParse(val)
boolean(wrapped, val) ==
    wrapped_safeParse("boolean", wrapped,
        preprocessIfValid(union(stripEmpty_safeParse(val),
                                union(trueFromString(val), falseFromString(val))), val))

\* zcsv.date(schema).safeParse(val)
date(wrapped, val, lenient) ==
    wrapped_safeParse("date", wrapped,
        preprocessIfValid(union(stripEmpty_safeParse(val), dateFromString(val, lenient)), val))

(* ------------------------------------------------------------------ *)
(* csv.ts : the batch processor                                        *)
(* ------------------------------------------------------------------ *)
JOINER == <<",", SP>>
MISSING_HEADER == "MISSING_HEADER"
MISSING_COLUMN == "MISSING_COLUMN"
\* the empty object {} returned when the header has no error
NoHeaderError == [errorCode |-> NoOpt, header |-> <<>>]
ObjectKeys(headerError) == IF headerError.errorCode = NoOpt THEN 0 ELSE 2

\* throws a TypeError when the tokenizer returns no row at all
getCSVHeaderErrorsThrows(csvContent, options) ==
    extractHeadersFromContent(csvContent, options) = UndefinedHeaders

getCSVHeaderErrors(csvContent, schema, options) ==
    LET expectedHeaders == getHeadersFromSchema(schema)
        missing(csvHeaders) ==
            SelectSeq(expectedHeaders, LAMBDA h : trim(h) \notin Range(csvHeaders))
        check(csvHeaders, missingHeaders) ==
            IF Len(csvHeaders) = 0
            THEN [errorCode |-> MISSING_HEADER, header |-> join(expectedHeaders, JOINER)]
            ELSE IF Len(missingHeaders) > 0
                 THEN [errorCode |-> MISSING_COLUMN, header |-> join(missingHeaders, JOINER)]
                 ELSE NoHeaderError
        checked(csvHeaders) == check(csvHeaders, missing(csvHeaders))
    IN checked(extractHeadersFromContent(csvContent, options))

\* the rows with the cells copied as tokenized, without trim()
getRowsFromContent_untrimmed(csvContent, schema, options) ==
    LET headersFromSchema == getHeadersFromSchema(schema)
        object(row) ==
            reduceToObject(headersFromSchema,
                [index \in 1..Len(headersFromSchema) |->
                    IF index > Len(row) THEN UNDEF ELSE row[index]])
        objects(rows) == [r \in 1..Len(rows) |-> object(rows[r])]
    IN objects(extractRows(csvContent, options))

getRowsFromContent(csvContent, schema, options) ==
    LET headersFromSchema == getHeadersFromSchema(schema)
        object(row) ==
            reduceToObject(headersFromSchema,
                [index \in 1..Len(headersFromSchema) |->
                    IF index > Len(row) THEN UNDEF
                    ELSE IF Len(row[index]) > 0 THEN trim(row[index])
                    ELSE row[index]])
        objects(rows) == [r \in 1..Len(rows) |-> object(rows[r])]
    IN objects(extractRows(csvContent, options))

\* [validRows, errors]: errors is keyed by the zero-based position of the row
RECURSIVE validRowsOf(_, _)
validRowsOf(schema, rows) ==
    IF Len(rows) = 0 THEN <<>>
    ELSE LET parsed == safeParse(schema, Head(rows))
         IN (IF parsed.success THEN <<parsed.data>> ELSE <<>>) \o validRowsOf(schema, Tail(rows))

\* row errors keyed by the line number in the file, the header line counted
getCSVBodyErrors_lineNumbers(csvContent, schema, options) ==
    LET validated(rows) ==
            [validRows |-> validRowsOf(schema, rows),
             errors |-> [i \in {j \in 1..Len(rows) : ~safeParse(schema, rows[j]).success}
                           |-> safeParse(schema, rows[i]).error]]
    IN validated(getRowsFromContent(csvContent, schema, options))

getCSVBodyErrors(csvContent, schema, options) ==
    LET validated(rows) ==
            [validRows |-> validRowsOf(schema, rows),
             errors |-> [i \in {j \in 0..(Len(rows) - 1) : ~safeParse(schema, rows[j + 1]).success}
                           |-> safeParse(schema, rows[i + 1]).error]]
    IN validated(getRowsFromContent(csvContent, schema, options))

\* the errors object is undefined (defined = FALSE) or {header, rows}, each possibly undefined
NoErrors == [defined |-> FALSE,
             header |-> [defined |-> FALSE, value |-> NoHeaderError],
             rows |-> [defined |-> FALSE, value |-> <<>>]]

\* the header check's result copied into errors.header even when it is {}
getCSVErrorsAndValidRows_headerAlways(csvContent, schema, options) ==
    LET merged(body, header, rowsErrors, headerErrors) ==
            IF rowsErrors = 0 /\ headerErrors = 0
            THEN [validRows |-> body.validRows, errors |-> NoErrors]
            ELSE [validRows |-> body.validRows,
                  errors |-> [defined |-> TRUE,
                              header |-> [defined |-> TRUE, value |-> header],
                              rows |-> IF rowsErrors # 0
                                       THEN [defined |-> TRUE, value |-> body.errors]
                                       ELSE [defined |-> FALSE, value |-> <<>>]]]
        counted(body, header) ==
            merged(body, header, Cardinality(DOMAIN body.errors), ObjectKeys(header))
    IN counted(getCSVBodyErrors(csvContent, schema, options),
               getCSVHeaderErrors(csvContent, schema, NoOptions))

getCSVErrorsAndValidRows(csvContent, schema, options) ==
    LET merged(body, header, rowsErrors, headerErrors) ==
            IF rowsErrors = 0 /\ headerErrors = 0
            THEN [validRows |-> body.validRows, errors |-> NoErrors]
            ELSE [validRows |-> body.validRows,
                  errors |-> [defined |-> TRUE,
                              header |-> IF headerErrors # 0
                                         THEN [defined |-> TRUE, value |-> header]
                                         ELSE [defined |-> FALSE, value |-> NoHeaderError],
                              rows |-> IF rowsErrors # 0
                                       THEN [defined |-> TRUE, value |-> body.errors]
                                       ELSE [defined |-> FALSE, value |-> <<>>]]]
        counted(body, header) ==
            merged(body, header, Cardinality(DOMAIN body.errors), ObjectKeys(header))
    IN counted(getCSVBodyErrors(csvContent, schema, options),
               getCSVHeaderErrors(csvContent, schema, NoOptions))

Thrown == [thrown |-> TRUE]

parseCSVContent(csvContent, schema, options) ==
    LET returned(r) ==
            [thrown |-> FALSE,
             success |-> ~r.errors.defined,
             header |-> extractHeadersFromContent(csvContent, options),
             allRows |-> getRowsFromContent(csvContent, schema, options),
             validRows |-> r.validRows,
             errors |-> r.errors]
    IN IF getCSVHeaderErrorsThrows(csvContent, NoOptions) THEN Thrown
       ELSE returned(getCSVErrorsAndValidRows(csvContent, schema, options))

\* Object.values of an object with integer keys: the values in ascending key order
ObjectValues(object) ==
    LET keys == DOMAIN object
        nth(k) == CHOOSE i \in keys : Cardinality({j \in keys : j < i}) = k - 1
    IN [k \in 1..Cardinality(keys) |-> object[nth(k)]]

\* {success: true, row} or {success: false, errors}; row is undefined when validRows is empty
parseRow(row, schema, options) ==
    LET enrichedRow == join(getHeadersFromSchema(schema), <<",">>) \o <<LF>> \o row
        returned(r) ==
            IF r.errors.defined /\ r.errors.rows.defined
            THEN [thrown |-> FALSE, success |-> FALSE, row |-> UNDEF,
                  errors |-> ObjectValues(r.errors.rows.value)]
            ELSE [thrown |-> FALSE, success |-> TRUE,
                  row |-> IF Len(r.validRows) = 0 THEN UNDEF ELSE r.validRows[1],
                  errors |-> <<>>]
    IN IF getCSVHeaderErrorsThrows(enrichedRow, NoOptions) THEN Thrown
       ELSE returned(getCSVErrorsAndValidRows(enrichedRow, schema, options))

(* ------------------------------------------------------------------ *)
(* stream.ts : CSVStream                                               *)
(* ------------------------------------------------------------------ *)
\* the fields of a CSVStream after construction; events is the log of emit() calls
NewStream == [headers |-> <<>>, buffer |-> <<>>, rowIndex |-> 0,
              headersParsed |-> FALSE, events |-> <<>>]

emit(st, event, payload) ==
    [st EXCEPT !.events = Append(@, [event |-> event, payload |-> payload])]

RECURSIVE scanNewline(_, _, _)
scanNewline(buf, pos, inQuotes) ==
    IF pos >= Len(buf) THEN -1
    ELSE IF charAt(buf, pos) = BS /\ pos + 1 < Len(buf) /\ charAt(buf, pos + 1) = DQ
         THEN scanNewline(buf, pos + 2, inQuotes)
    ELSE IF charAt(buf, pos) = DQ THEN scanNewline(buf, pos + 1, ~inQuotes)
    ELSE IF charAt(buf, pos) = LF /\ ~inQuotes THEN pos
    ELSE scanNewline(buf, pos + 1, inQuotes)

findSafeNewlinePosition(buf) == scanNewline(buf, 0, FALSE)

\* processRow that counts only the rows that fail
processRow_failuresCounted(st, cells, schema) ==
    LET filledCells == [i \in 1..(IF Len(cells) < Len(st.headers) THEN Len(st.headers) ELSE Len(cells))
                          |-> IF i <= Len(cells) THEN cells[i] ELSE <<>>]
        emitted(rowObject, parsed) ==
            IF parsed.success
            THEN emit(st, "data", parsed.data)
            ELSE [emit(st, "error",
                       [index |-> st.rowIndex, row |-> rowObject, error |-> parsed.error])
                     EXCEPT !.rowIndex = @ + 1]
        validated(rowObject) == emitted(rowObject, safeParse(schema, rowObject))
    IN validated(reduceToObject(st.headers, filledCells))

processRow(st, cells, schema) ==
    LET filledCells == [i \in 1..(IF Len(cells) < Len(st.headers) THEN Len(st.headers) ELSE Len(cells))
                          |-> IF i <= Len(cells) THEN cells[i] ELSE <<>>]
        emitted(rowObject, parsed) ==
            IF parsed.success
            THEN emit(st, "data", parsed.data)
            ELSE emit(st, "error",
                      [index |-> st.rowIndex, row |-> rowObject, error |-> parsed.error])
        validated(rowObject) == emitted(rowObject, safeParse(schema, rowObject))
    IN [validated(reduceToObject(st.headers, filledCells)) EXCEPT !.rowIndex = @ + 1]

RECURSIVE processRows(_, _, _)
processRows(st, rows, schema) ==
    IF Len(rows) = 0 THEN st
    ELSE processRows(processRow(st, Head(rows), schema), Tail(rows), schema)

\* the while loop taking what is left without a safe newline for a final row
RECURSIVE processLoop_tailFlushed(_, _, _, _)
processLoop_tailFlushed(st, isEnd, schema, options) ==
    IF Len(st.buffer) = 0 THEN st
    ELSE LET rowsOf(rowData) == processRows(st, csv_parse(rowData, options), schema)
             step(rowEndIndex) ==
                 IF rowEndIndex = -1
                 THEN IF Len(trim(st.buffer)) > 0
                      THEN [rowsOf(st.buffer) EXCEPT !.buffer = <<>>]
                      ELSE st
                 ELSE processLoop_tailFlushed(
                          [rowsOf(slice(st.buffer, 0, rowEndIndex)) EXCEPT
                              !.buffer = slice(st.buffer, rowEndIndex + 1, Len(st.buffer))],
                          isEnd, schema, options)
         IN step(findSafeNewlinePosition(st.buffer))

\* the while loop of processBuffer
RECURSIVE processLoop(_, _, _, _)
processLoop(st, isEnd, schema, options) ==
    IF Len(st.buffer) = 0 THEN st
    ELSE LET rowsOf(rowData) == processRows(st, csv_parse(rowData, options), schema)
             step(rowEndIndex) ==
                 IF rowEndIndex = -1
                 THEN IF isEnd /\ Len(trim(st.buffer)) > 0
                      THEN [rowsOf(st.buffer) EXCEPT !.buffer = <<>>]
                      ELSE st
                 ELSE processLoop([rowsOf(slice(st.buffer, 0, rowEndIndex)) EXCEPT
                                      !.buffer = slice(st.buffer, rowEndIndex + 1, Len(st.buffer))],
                                  isEnd, schema, options)
         IN step(findSafeNewlinePosition(st.buffer))

\* processBuffer that forgets it has parsed the header
processBuffer_headerNotRecorded(st, isEnd, schema, options) ==
    IF ~st.headersParsed
    THEN LET headerLine(headerEndIndex) ==
                 IF isEnd /\ headerEndIndex = -1 THEN st.buffer
                 ELSE slice(st.buffer, 0, headerEndIndex)
             first(parsed) == IF Len(parsed) = 0 THEN <<>> ELSE parsed[1]
             parsedHeader(headerEndIndex, headers) ==
                 [emit(st, "headers", headers) EXCEPT
                     !.headers = headers,
                     !.buffer = IF headerEndIndex = -1 THEN <<>>
                                ELSE slice(st.buffer, headerEndIndex + 1, Len(st.buffer))]
             step(headerEndIndex) ==
                 IF headerEndIndex = -1 /\ ~isEnd THEN st
                 ELSE processLoop(
                          parsedHeader(headerEndIndex,
                                       first(csv_parse(headerLine(headerEndIndex), options))),
                          isEnd, schema, options)
         IN step(findSafeNewlinePosition(st.buffer))
    ELSE processLoop(st, isEnd, schema, options)

processBuffer(st, isEnd, schema, options) ==
    IF ~st.headersParsed
    THEN LET headerLine(headerEndIndex) ==
                 IF isEnd /\ headerEndIndex = -1 THEN st.buffer
                 ELSE slice(st.buffer, 0, headerEndIndex)
             first(parsed) == IF Len(parsed) = 0 THEN <<>> ELSE parsed[1]
             parsedHeader(headerEndIndex, headers) ==
                 [emit(st, "headers", headers) EXCEPT
                     !.headers = headers,
                     !.headersParsed = TRUE,
                     !.buffer = IF headerEndIndex = -1 THEN <<>>
                                ELSE slice(st.buffer, headerEndIndex + 1, Len(st.buffer))]
             step(headerEndIndex) ==
                 IF headerEndIndex = -1 /\ ~isEnd THEN st
                 ELSE processLoop(
                          parsedHeader(headerEndIndex,
                                       first(csv_parse(headerLine(headerEndIndex), options))),
                          isEnd, schema, options)
         IN step(findSafeNewlinePosition(st.buffer))
    ELSE processLoop(st, isEnd, schema, options)

\* the header part of processBuffer (before the while loop)
parseHeaders(st, isEnd, options) ==
    IF ~st.headersParsed
    THEN LET headerLine(headerEndIndex) ==
                 IF isEnd /\ headerEndIndex = -1 THEN st.buffer
                 ELSE slice(st.buffer, 0, headerEndIndex)
             first(parsed) == IF Len(parsed) = 0 THEN <<>> ELSE parsed[1]
             parsedHeader(headerEndIndex, headers) ==
                 [emit(st, "headers", headers) EXCEPT
                     !.headers = headers,
                     !.headersParsed = TRUE,
                     !.buffer = IF headerEndIndex = -1 THEN <<>>
                                ELSE slice(st.buffer, headerEndIndex + 1, Len(st.buffer))]
             step(headerEndIndex) ==
                 IF headerEndIndex = -1 /\ ~isEnd THEN st
                 ELSE parsedHeader(headerEndIndex,
                                   first(csv_parse(headerLine(headerEndIndex), options)))
         IN step(findSafeNewlinePosition(st.buffer))
    ELSE st

\* the catch branch that leaves the segment in the buffer
skipSegment_kept(buf, rowEndIndex) == buf

\* the catch branch of the loop: move past the segment and its newline
skipSegment(buf, rowEndIndex) == slice(buf, rowEndIndex + 1, Len(buf))

\* a pass that throws away what is left without a safe newline
loopIteration_tailDropped(st, isEnd, fails, schema, options) ==
    LET rowsOf(rowData) == processRows(st, csv_parse(rowData, options), schema)
        pass(rowEndIndex) ==
            IF rowEndIndex = -1
            THEN IF isEnd /\ Len(trim(st.buffer)) > 0
                 THEN IF fails
                      THEN [st |-> st, exit |-> TRUE, logged |-> TRUE]
                      ELSE [st |-> [rowsOf(st.buffer) EXCEPT !.buffer = <<>>],
                            exit |-> TRUE, logged |-> FALSE]
                 ELSE [st |-> [st EXCEPT !.buffer = <<>>], exit |-> TRUE, logged |-> FALSE]
            ELSE IF fails
                 THEN [st |-> [st EXCEPT !.buffer = skipSegment(st.buffer, rowEndIndex)],
                       exit |-> FALSE, logged |-> TRUE]
                 ELSE [st |-> [rowsOf(slice(st.buffer, 0, rowEndIndex)) EXCEPT
                                  !.buffer = slice(st.buffer, rowEndIndex + 1, Len(st.buffer))],
                       exit |-> FALSE, logged |-> FALSE]
    IN IF Len(st.buffer) = 0 THEN [st |-> st, exit |-> TRUE, logged |-> FALSE]
       ELSE pass(findSafeNewlinePosition(st.buffer))

\* one pass of the while loop of processBuffer; fails says that csv.parse throws on
\* the segment.  exit: the loop is left; logged: console.error was called
loopIteration(st, isEnd, fails, schema, options) ==
    LET rowsOf(rowData) == processRows(st, csv_parse(rowData, options), schema)
        pass(rowEndIndex) ==
            IF rowEndIndex = -1
            THEN IF isEnd /\ Len(trim(st.buffer)) > 0
                 THEN IF fails
                      THEN [st |-> st, exit |-> TRUE, logged |-> TRUE]
                      ELSE [st |-> [rowsOf(st.buffer) EXCEPT !.buffer = <<>>],
                            exit |-> TRUE, logged |-> FALSE]
                 ELSE [st |-> st, exit |-> TRUE, logged |-> FALSE]
            ELSE IF fails
                 THEN [st |-> [st EXCEPT !.buffer = skipSegment(st.buffer, rowEndIndex)],
                       exit |-> FALSE, logged |-> TRUE]
                 ELSE [st |-> [rowsOf(slice(st.buffer, 0, rowEndIndex)) EXCEPT
                                  !.buffer = slice(st.buffer, rowEndIndex + 1, Len(st.buffer))],
                       exit |-> FALSE, logged |-> FALSE]
    IN IF Len(st.buffer) = 0 THEN [st |-> st, exit |-> TRUE, logged |-> FALSE]
       ELSE pass(findSafeNewlinePosition(st.buffer))

\* write() and end() with a data/error listener that calls write(pending) on the same
\* stream when it is first called: st.pending is the chunk the listener has yet to
\* write.  emit() runs the listener before processRow counts the row, and the loop
\* cuts the segment from the buffer after its rows were processed
RECURSIVE processRow_listening(_, _, _, _)
RECURSIVE processRows_listening(_, _, _, _)
RECURSIVE processLoop_listening(_, _, _, _)

processRow_listening(st, cells, schema, options) ==
    LET filledCells == [i \in 1..(IF Len(cells) < Len(st.headers) THEN Len(st.headers) ELSE Len(cells))
                          |-> IF i <= Len(cells) THEN cells[i] ELSE <<>>]
        emitted(rowObject, parsed) ==
            IF parsed.success
            THEN emit(st, "data", parsed.data)
            ELSE emit(st, "error",
                      [index |-> st.rowIndex, row |-> rowObject, error |-> parsed.error])
        listened(s) ==
            IF Len(s.pending) = 0 THEN s
            ELSE processLoop_listening([s EXCEPT !.buffer = @ \o s.pending, !.pending = <<>>],
                                       FALSE, schema, options)
        validated(rowObject) == listened(emitted(rowObject, safeParse(schema, rowObject)))
    IN [validated(reduceToObject(st.headers, filledCells)) EXCEPT !.rowIndex = @ + 1]

processRows_listening(st, rows, schema, options) ==
    IF Len(rows) = 0 THEN st
    ELSE processRows_listening(processRow_listening(st, Head(rows), schema, options),
                               Tail(rows), schema, options)

processLoop_listening(st, isEnd, schema, options) ==
    IF Len(st.buffer) = 0 THEN st
    ELSE LET cut(s, rowEndIndex) ==
                 [s EXCEPT !.buffer = slice(s.buffer, rowEndIndex + 1, Len(s.buffer))]
             emptied(s) == [s EXCEPT !.buffer = <<>>]
             rowsOf(rowData) ==
                 processRows_listening(st, csv_parse(rowData, options), schema, options)
             step(rowEndIndex) ==
                 IF rowEndIndex = -1
                 THEN IF isEnd /\ Len(trim(st.buffer)) > 0
                      THEN emptied(rowsOf(st.buffer))
                      ELSE st
                 ELSE processLoop_listening(
                          cut(rowsOf(slice(st.buffer, 0, rowEndIndex)), rowEndIndex),
                          isEnd, schema, options)
         IN step(findSafeNewlinePosition(st.buffer))

\* the header is resolved before any data/error listener runs
write_listening(st, chunk, schema, options) ==
    LET looped(s) == IF s.headersParsed THEN processLoop_listening(s, FALSE, schema, options)
                     ELSE s
    IN looped(parseHeaders([st EXCEPT !.buffer = @ \o chunk], FALSE, options))

end_listening(st, schema, options) ==
    emit(processLoop_listening(parseHeaders(st, TRUE, options), TRUE, schema, options),
         "end", <<>>)

\* write() that takes every chunk for the last one
write_asEnd(st, chunk, schema, options) ==
    processBuffer([st EXCEPT !.buffer = @ \o chunk], TRUE, schema, options)

write(st, chunk, schema, options) ==
    processBuffer([st EXCEPT !.buffer = @ \o chunk], FALSE, schema, options)

end(st, schema, options) ==
    emit(processBuffer(st, TRUE, schema, options), "end", <<>>)

(* ------------------------------------------------------------------ *)
(* Inputs                                                              *)
(* ------------------------------------------------------------------ *)
MaxTyped == 3
MaxWritten == 3
MaxChunk == 2
MaxEnds == 2

Field(name, kind) == [name |-> <<name>>, kind |-> kind]
Schemas == { <<Field("n", "string"), Field("g", "optional")>>,
             <<Field("n", "plain"), Field("g", "plain")>> }

BatchOptions == { NoOptions,
                  [NoOptions EXCEPT !.skipEmptyLines = TRUE],
                  [NoOptions EXCEPT !.quote = SQ],
                  [NoOptions EXCEPT !.comma = ";"] }
StreamOptions == { NoOptions, [NoOptions EXCEPT !.skipEmptyLines = TRUE] }

\* header lines a text may start with; the rest of a text is typed character by character
HeaderLines == { <<>>,
                 <<"n", ",", "g", LF>>,
                 <<"g", ",", "n", LF>>,
                 <<"n", LF>>,
                 <<"n", ";", "g", LF>>,
                 <<SP, "n", ",", "g", LF>>,
                 <<SQ, "n", SQ, ",", SQ, "g", SQ, LF>>,
                 <<"n", ",", "g", ",", "x", LF>> }
BatchAlphabet == {"x", ",", ";", LF, SP, DQ, SQ}

StreamAlphabet == {"x", ",", LF, SP, DQ, BS}
HeaderChunks == { <<"n", ",">>, <<"g", LF>>, <<"n", ",", "g", LF>>,
                  <<"g", ",", "n", LF>>, <<"n", LF>> }
BodyChunks == UNION { [1..k -> StreamAlphabet] : k \in 1..MaxChunk }

(* ------------------------------------------------------------------ *)
(* State                                                               *)
(* ------------------------------------------------------------------ *)
VARIABLES
    schema, options,                                  \* the arguments of a call
    csvContent, typed, pc, result,                    \* a parseCSVContent call
    headers, buffer, rowIndex, headersParsed, events, \* a CSVStream and its emitted events
    written, bodyWritten, ended                       \* what the caller did with the stream

vars == <<schema, options, csvContent, typed, pc, result,
          headers, buffer, rowIndex, headersParsed, events,
          written, bodyWritten, ended>>
batchVars == <<csvContent, typed, pc, result>>
streamVars == <<headers, buffer, rowIndex, headersParsed, events,
                written, bodyWritten, ended>>

NoResult == [thrown |-> FALSE, success |-> FALSE, header |-> <<>>, allRows |-> <<>>,
             validRows |-> <<>>, errors |-> NoErrors]

stream == [headers |-> headers, buffer |-> buffer, rowIndex |-> rowIndex,
           headersParsed |-> headersParsed, events |-> events]

BatchIdle ==
    /\ csvContent = <<>>
    /\ typed = 0
    /\ pc = "input"
    /\ result = NoResult

StreamNew ==
    /\ headers = NewStream.headers
    /\ buffer = NewStream.buffer
    /\ rowIndex = NewStream.rowIndex
    /\ headersParsed = NewStream.headersParsed
    /\ events = NewStream.events
    /\ written = <<>>
    /\ bodyWritten = 0
    /\ ended = 0

(* ------------------------------------------------------------------ *)
(* The batch call: the caller prepares a text, then parseCSVContent     *)
(* ------------------------------------------------------------------ *)
InitBatch ==
    /\ schema \in Schemas
    /\ options \in BatchOptions
    /\ csvContent \in HeaderLines
    /\ typed = 0
    /\ pc = "input"
    /\ result = NoResult
    /\ StreamNew

Type(c) ==
    /\ pc = "input"
    /\ typed < MaxTyped
    /\ csvContent' = Append(csvContent, c)
    /\ typed' = typed + 1
    /\ UNCHANGED <<schema, options, pc, result>>
    /\ UNCHANGED streamVars

ParseCSVContent ==
    /\ pc = "input"
    /\ result' = parseCSVContent(csvContent, schema, options)
    /\ pc' = "done"
    /\ UNCHANGED <<schema, options, csvContent, typed>>
    /\ UNCHANGED streamVars

NextBatch ==
    \/ \E c \in BatchAlphabet : Type(c)
    \/ ParseCSVContent

SpecBatch == InitBatch /\ [][NextBatch]_vars

(* ------------------------------------------------------------------ *)
(* Tokenizing a written field: the caller types the content of a cell, *)
(* writes it as a quoted field of a two-line text, and the text is     *)
(* tokenized by extractHeadersFromContent and extractRows              *)
(* ------------------------------------------------------------------ *)
CellAlphabet == {"x", ",", ";", CR, LF, SP, DQ, SQ}
TokenizeOptions == { NoOptions,
                     [NoOptions EXCEPT !.quote = SQ],
                     [NoOptions EXCEPT !.comma = ";"],
                     [NoOptions EXCEPT !.comma = ";", !.quote = SQ] }

\* the content with every quote character doubled
RECURSIVE doubleQuotes(_, _)
doubleQuotes(content, quote) ==
    IF Len(content) = 0 THEN <<>>
    ELSE (IF Head(content) = quote THEN <<quote, quote>> ELSE <<Head(content)>>)
            \o doubleQuotes(Tail(content), quote)

\* the content written as a quoted field
quotedField(content, quote) == <<quote>> \o doubleQuotes(content, quote) \o <<quote>>

configuredComma == IF options.comma = NoOpt THEN "," ELSE options.comma
configuredQuote == IF options.quote = NoOpt THEN DQ ELSE options.quote

\* the line  x<delimiter><quoted field>  followed by the line  x
textWithField(content) ==
    <<"x", configuredComma>> \o quotedField(content, configuredQuote) \o <<LF, "x">>

InitTokenize ==
    /\ schema \in Schemas
    /\ options \in TokenizeOptions
    /\ BatchIdle
    /\ StreamNew

ExtractQuoted ==
    /\ pc = "input"
    /\ result' = [header |-> extractHeadersFromContent(textWithField(csvContent), options),
                  rows |-> extractRows(textWithField(csvContent), options)]
    /\ pc' = "tokenized"
    /\ UNCHANGED <<schema, options, csvContent, typed>>
    /\ UNCHANGED streamVars

NextTokenize ==
    \/ \E c \in CellAlphabet : Type(c)
    \/ ExtractQuoted

SpecTokenize == InitTokenize /\ [][NextTokenize]_vars

(* ------------------------------------------------------------------ *)
(* The single-row call: the caller prepares a line, then parseRow      *)
(* ------------------------------------------------------------------ *)
InitRow ==
    /\ schema \in Schemas
    /\ options \in BatchOptions
    /\ BatchIdle
    /\ StreamNew

ParseRow ==
    /\ pc = "input"
    /\ result' = parseRow(csvContent, schema, options)
    /\ pc' = "row"
    /\ UNCHANGED <<schema, options, csvContent, typed>>
    /\ UNCHANGED streamVars

NextRow ==
    \/ \E c \in BatchAlphabet : Type(c)
    \/ ParseRow

SpecRow == InitRow /\ [][NextRow]_vars

(* ------------------------------------------------------------------ *)
(* The stream: write(chunk) and end()                                  *)
(* ------------------------------------------------------------------ *)
Init ==
    /\ schema \in Schemas
    /\ options \in StreamOptions
    /\ BatchIdle
    /\ StreamNew

SetStream(st) ==
    /\ headers' = st.headers
    /\ buffer' = st.buffer
    /\ rowIndex' = st.rowIndex
    /\ headersParsed' = st.headersParsed
    /\ events' = st.events

\* the caller writes while it has not ended the stream
WriteCall(chunk) ==
    /\ ended = 0
    /\ SetStream(write(stream, chunk, schema, options))
    /\ written' = written \o chunk
    /\ UNCHANGED <<schema, options, ended>>
    /\ UNCHANGED batchVars

\* the header of the text, written in one or two chunks before anything else
WriteHeader(chunk) ==
    /\ bodyWritten = 0
    /\ Len(written) < 4
    /\ bodyWritten' = bodyWritten
    /\ WriteCall(chunk)

Write(chunk) ==
    /\ bodyWritten + Len(chunk) <= MaxWritten
    /\ bodyWritten' = bodyWritten + Len(chunk)
    /\ WriteCall(chunk)

End ==
    /\ ended < MaxEnds
    /\ SetStream(end(stream, schema, options))
    /\ ended' = ended + 1
    /\ UNCHANGED <<schema, options, written, bodyWritten>>
    /\ UNCHANGED batchVars

Next ==
    \/ \E chunk \in HeaderChunks : WriteHeader(chunk)
    \/ \E chunk \in BodyChunks : Write(chunk)
    \/ End

Spec == Init /\ [][Next]_vars

(* ------------------------------------------------------------------ *)
(* The stream driven by a caller that keeps no order: it may write     *)
(* after it signalled the end, and it signals the end by end() or, as  *)
(* the README does, by emitting "end" on the processor                 *)
(* ------------------------------------------------------------------ *)
SignalAlphabet == {"x", ",", LF, DQ}
SignalChunks == UNION { [1..k -> SignalAlphabet] : k \in 1..MaxChunk }

WriteAnytime(chunk) ==
    /\ bodyWritten + Len(chunk) <= MaxWritten
    /\ bodyWritten' = bodyWritten + Len(chunk)
    /\ SetStream(write(stream, chunk, schema, options))
    /\ written' = written \o chunk
    /\ UNCHANGED <<schema, options, ended>>
    /\ UNCHANGED batchVars

\* processor.emit("end"): the listeners get the end event, nothing is processed
EmitEnd ==
    /\ ended < MaxEnds
    /\ SetStream(emit(stream, "end", <<>>))
    /\ ended' = ended + 1
    /\ UNCHANGED <<schema, options, written, bodyWritten>>
    /\ UNCHANGED batchVars

NextSignals ==
    \/ \E chunk \in HeaderChunks : WriteHeader(chunk)
    \/ \E chunk \in SignalChunks : WriteAnytime(chunk)
    \/ End
    \/ EmitEnd

SpecSignals == Init /\ [][NextSignals]_vars

(* ------------------------------------------------------------------ *)
(* write() and end() pass by pass: a call parses the header, then the  *)
(* while loop of processBuffer runs one pass at a time; the tokenizer  *)
(* may throw on a segment                                              *)
(* ------------------------------------------------------------------ *)
Idle == pc = "input"
InLoop == pc \in {"write", "end"}
NothingLogged == [logged |-> FALSE]

InitLoop ==
    /\ schema \in Schemas
    /\ options \in StreamOptions
    /\ csvContent = <<>>
    /\ typed = 0
    /\ pc = "input"
    /\ result = NothingLogged
    /\ StreamNew

\* write(chunk) up to the while loop
Entered(st, cost, chunk) ==
    /\ SetStream(st)
    /\ pc' = IF st.headersParsed THEN "write" ELSE "input"
    /\ written' = written \o chunk
    /\ bodyWritten' = bodyWritten + cost
    /\ UNCHANGED <<schema, options, csvContent, typed, result, ended>>

CallWriteHeader(chunk) ==
    /\ Idle
    /\ ended = 0
    /\ bodyWritten = 0
    /\ Len(written) < 4
    /\ Entered(parseHeaders([stream EXCEPT !.buffer = @ \o chunk], FALSE, options), 0, chunk)

CallWrite(chunk) ==
    /\ Idle
    /\ ended = 0
    /\ bodyWritten + Len(chunk) <= MaxWritten
    /\ Entered(parseHeaders([stream EXCEPT !.buffer = @ \o chunk], FALSE, options),
               Len(chunk), chunk)

\* end() up to the while loop
CallEnd ==
    /\ Idle
    /\ ended = 0
    /\ SetStream(parseHeaders(stream, TRUE, options))
    /\ pc' = "end"
    /\ UNCHANGED <<schema, options, csvContent, typed, result, written, bodyWritten, ended>>

\* one pass of the loop; end() emits end when the loop is left
Passed(it) ==
    /\ SetStream(IF it.exit /\ pc = "end" THEN emit(it.st, "end", <<>>) ELSE it.st)
    /\ pc' = IF it.exit THEN "input" ELSE pc
    /\ ended' = IF it.exit /\ pc = "end" THEN ended + 1 ELSE ended
    /\ result' = IF it.logged THEN [logged |-> TRUE] ELSE result
    /\ UNCHANGED <<schema, options, csvContent, typed, written, bodyWritten>>

LoopPass ==
    /\ InLoop
    /\ \E fails \in BOOLEAN :
           Passed(loopIteration(stream, pc = "end", fails, schema, options))

NextLoop ==
    \/ \E chunk \in HeaderChunks : CallWriteHeader(chunk)
    \/ \E chunk \in SignalChunks : CallWrite(chunk)
    \/ CallEnd
    \/ LoopPass

SpecLoop == InitLoop /\ [][NextLoop]_vars

(* ------------------------------------------------------------------ *)
(* The stream with a re-entrant listener: the data and error listener  *)
(* writes one more chunk, csvContent, from inside its first call       *)
(* ------------------------------------------------------------------ *)
listening == [headers |-> headers, buffer |-> buffer, rowIndex |-> rowIndex,
              headersParsed |-> headersParsed, events |-> events, pending |-> csvContent]

InitListening ==
    /\ schema \in Schemas
    /\ options = NoOptions
    /\ csvContent \in SignalChunks
    /\ typed = 0
    /\ pc = "input"
    /\ result = NoResult
    /\ StreamNew

\* the call returned st; what the listener wrote during the call was written after chunk
Listened(st, chunk) ==
    /\ SetStream(st)
    /\ written' = written \o chunk \o (IF st.pending = csvContent THEN <<>> ELSE csvContent)
    /\ csvContent' = st.pending
    /\ UNCHANGED <<schema, options, typed, pc, result>>

WriteHeaderListening(chunk) ==
    /\ ended = 0
    /\ bodyWritten = 0
    /\ Len(written) < 4
    /\ Listened(write_listening(listening, chunk, schema, options), chunk)
    /\ UNCHANGED <<bodyWritten, ended>>

WriteListening(chunk) ==
    /\ ended = 0
    /\ bodyWritten + Len(chunk) <= MaxWritten
    /\ bodyWritten' = bodyWritten + Len(chunk)
    /\ Listened(write_listening(listening, chunk, schema, options), chunk)
    /\ UNCHANGED ended

EndListening ==
    /\ ended = 0
    /\ ended' = 1
    /\ Listened(end_listening(listening, schema, options), <<>>)
    /\ UNCHANGED bodyWritten

NextListening ==
    \/ \E chunk \in HeaderChunks : WriteHeaderListening(chunk)
    \/ \E chunk \in SignalChunks : WriteListening(chunk)
    \/ EndListening

SpecListening == InitListening /\ [][NextListening]_vars

(* ------------------------------------------------------------------ *)
(* Properties of the stream                                            *)
(* ------------------------------------------------------------------ *)
count(seq, v) == Cardinality({i \in 1..Len(seq) : seq[i] = v})
sameMultiset(s, t) == \A v \in Range(s) \cup Range(t) : count(s, v) = count(t, v)

eventsOf(kind) == SelectSeq(events, LAMBDA e : e.event = kind)
dataValues == [i \in 1..Len(eventsOf("data")) |-> eventsOf("data")[i].payload]
errorEntries ==
    [i \in 1..Len(eventsOf("error")) |->
        <<eventsOf("error")[i].payload.index, eventsOf("error")[i].payload.error>>]

\* the writes are over and end() was called once
WrittenThenEnded == ended = 1

batchOfWritten == parseCSVContent(written, schema, options)

\* C1: after the chunks of a text were written and end() was called, the data events
\* are, as a multiset, the validRows of parseCSVContent on the text, and the error
\* events are, as (index, error) pairs, the entries of its errors.rows
C1_StreamingEquivalence ==
    (WrittenThenEnded /\ ~batchOfWritten.thrown) =>
        /\ sameMultiset(dataValues, batchOfWritten.validRows)
        /\ \A i \in 1..Len(errorEntries) : count(errorEntries, errorEntries[i]) = 1
        /\ Range(errorEntries) =
              {<<k, batchOfWritten.errors.rows.value[k]>> :
                  k \in DOMAIN batchOfWritten.errors.rows.value}

isRowEvent(e) == e.event \in {"data", "error"}

rowEvents == SelectSeq(events, isRowEvent)

\* the rows processed so far each gave one data or error event, and an error event
\* carries the number of rows processed before its row
RowEventsCounted ==
    /\ rowIndex = Len(eventsOf("data")) + Len(eventsOf("error"))
    /\ rowIndex = Len(rowEvents)
    /\ \A k \in 1..Len(rowEvents) :
           rowEvents[k].event = "error" => rowEvents[k].payload.index = k - 1

\* C17: whatever the caller does, every processed row gives exactly one event, data
\* or error, an error event carries the number of rows processed before it, the row
\* counter is the number of data events plus the number of error events, and no
\* step decreases or resets the counter
C17_RowCounter ==
    [][RowEventsCounted /\ RowEventsCounted' /\ rowIndex' >= rowIndex]_vars

\* two rows or more were processed, an error event came after a data event, and the
\* end was signalled
C17_Witness ==
    /\ ended >= 1
    /\ rowIndex >= 2
    /\ \E k \in 2..Len(rowEvents) :
           rowEvents[k].event = "error" /\ rowEvents[k - 1].event = "data"

\* the text after the last safe newline of a text
RECURSIVE unterminatedTail(_)
unterminatedTail(text) ==
    IF findSafeNewlinePosition(text) = -1 THEN text
    ELSE unterminatedTail(slice(text, findSafeNewlinePosition(text) + 1, Len(text)))

\* the written text up to its last safe newline
terminatedPart == SubSeq(written, 1, Len(written) - Len(unterminatedTail(written)))

\* C18: while the caller writes, the text after the last safe newline stays in the
\* buffer and the events are those of the text before it alone; after end() nothing
\* but white space is left in the buffer
C18_TailBuffered ==
    /\ ended = 0 =>
           /\ buffer = unterminatedTail(written)
           /\ events = write(NewStream, terminatedPart, schema, options).events
    /\ ended >= 1 => Len(trim(buffer)) = 0

\* before end(): a row gave its event and the text written after it, which has a
\* line break inside quotes, is in the buffer
C18_Witness ==
    /\ ended = 0
    /\ headersParsed
    /\ Len(rowEvents) >= 1
    /\ LF \in Range(buffer)

\* the data and error events the written text gives when it is written and ended
rowEventsOfWritten ==
    SelectSeq(end(write(NewStream, written, schema, options), schema, options).events,
              isRowEvent)

\* C19: when the caller signals the end of the input, by end() or by emitting "end",
\* the listeners have got the data or error event of every row of the written text,
\* a last row without a line break included
C19_EndAfterAllRows ==
    [][(ended = 0 /\ ended' = 1) => SelectSeq(events', isRowEvent) = rowEventsOfWritten]_vars

\* C20: the end event is emitted at most once and no event comes after it
C20_EndedTerminal ==
    \A i \in 1..Len(events) : events[i].event = "end" => i = Len(events)

(* ------------------------------------------------------------------ *)
(* One cell validated by a helper: the caller picks the helper, the    *)
(* schema it wraps and the value, then calls safeParse                 *)
(* ------------------------------------------------------------------ *)
HelperInputs ==
    { Undefined, Str(<<>>), Str(<<SP>>), Str(<<"x">>), Str(<<"1">>), Str(<<"-", "1">>),
      Str(<<"1", "x">>), Str(TrueText), Str(FalseText), Str(IsoDateText) }

InitHelpers ==
    /\ schema \in [helper : Helpers, wrapped : Wrapped]
    /\ options = NoOptions
    /\ csvContent \in HelperInputs
    /\ typed = 0
    /\ pc = "input"
    /\ result = NoResult
    /\ StreamNew

helperSafeParse(helper, wrapped, val, lenient) ==
    IF helper = "string" THEN string(wrapped, val)
    ELSE IF helper = "number" THEN number(wrapped, val)
    ELSE IF helper = "boolean" THEN boolean(wrapped, val)
    ELSE date(wrapped, val, lenient)

SafeParse ==
    /\ pc = "input"
    /\ \E lenient \in BOOLEAN :
           result' = helperSafeParse(schema.helper, schema.wrapped, csvContent, lenient)
    /\ pc' = "validated"
    /\ UNCHANGED <<schema, options, csvContent, typed>>
    /\ UNCHANGED streamVars

NextHelpers == SafeParse

SpecHelpers == InitHelpers /\ [][NextHelpers]_vars

(* ------------------------------------------------------------------ *)
(* The safe-newline scan on its own: a buffer content is prepared and  *)
(* findSafeNewlinePosition scans it                                    *)
(* ------------------------------------------------------------------ *)
ScanAlphabet == {"x", ",", LF, DQ, SQ, BS}
ScanOptions == { NoOptions, [NoOptions EXCEPT !.quote = SQ] }

InitScan ==
    /\ schema \in Schemas
    /\ options \in ScanOptions
    /\ BatchIdle
    /\ StreamNew

FindSafeNewlinePosition ==
    /\ pc = "input"
    /\ result' = [position |-> findSafeNewlinePosition(csvContent)]
    /\ pc' = "scanned"
    /\ UNCHANGED <<schema, options, csvContent, typed>>
    /\ UNCHANGED streamVars

NextScan ==
    \/ \E c \in ScanAlphabet : Type(c)
    \/ FindSafeNewlinePosition

SpecScan == InitScan /\ [][NextScan]_vars

(* ------------------------------------------------------------------ *)
(* Field names of a schema: the caller builds a schema, zodKeys reads  *)
(* its field names                                                     *)
(* ------------------------------------------------------------------ *)
\* the schemas of single cells: z.string() and a zcsv helper
LeafSchemas == { ZodString, ZodEffects(ZodString) }
\* objects of cells
InnerObjects == { ZodObject(<<ShapeEntry("a", l)>>) : l \in LeafSchemas }
                    \cup { ZodObject(<<ShapeEntry("a", ZodString), ShapeEntry("b", l)>>) :
                              l \in LeafSchemas }
FieldSchemas == LeafSchemas \cup InnerObjects
                    \cup { ZodObject(<<>>), ZodOptional(ZodObject(<<ShapeEntry("a", ZodString)>>)) }
ObjectSchemas ==
    { ZodObject(<<ShapeEntry("n", v)>>) : v \in FieldSchemas }
        \cup { ZodObject(<<ShapeEntry("n", v), ShapeEntry("g", w)>>) :
                  v \in FieldSchemas, w \in FieldSchemas }
        \cup { ZodObject(<<ShapeEntry("g", v), ShapeEntry("n", ZodString)>>) : v \in FieldSchemas }
OtherSchemas ==
    { ZodUndefined, ZodString, ZodEffects(ZodString), ZodOptional(ZodString),
      ZodNullable(ZodString), ZodArray(ZodString) }
WrappedOnce ==
    UNION { {ZodOptional(o), ZodNullable(o), ZodArray(o), ZodEffects(o)} : o \in ObjectSchemas }
SchemaTrees == ObjectSchemas \cup WrappedOnce \cup OtherSchemas

InitKeys ==
    /\ schema \in SchemaTrees
    /\ options = NoOptions
    /\ BatchIdle
    /\ StreamNew

ZodKeys ==
    /\ pc = "input"
    /\ result' = [keys |-> zodKeys(schema)]
    /\ pc' = "keys"
    /\ UNCHANGED <<schema, options, csvContent, typed>>
    /\ UNCHANGED streamVars

NextKeys == ZodKeys

SpecKeys == InitKeys /\ [][NextKeys]_vars

(* ------------------------------------------------------------------ *)
(* Properties of parseCSVContent                                       *)
(* ------------------------------------------------------------------ *)
Returned == pc = "done" /\ ~result.thrown

expectedNames == getHeadersFromSchema(schema)
rowFails(row) == ~safeParse(schema, row).success
failingRows == {i \in 0..(Len(result.allRows) - 1) : rowFails(result.allRows[i + 1])}

\* the header names the header check reads
checkedHeader == extractHeadersFromContent(csvContent, NoOptions)
missingFrom(names) == SelectSeq(expectedNames, LAMBDA h : h \notin Range(names))

\* C3: errors is present iff success is false; errors.header is present iff the header
\* check found a missing header or a missing column; errors.rows is present iff some
\* data row fails validation
C3_ErrorsShape ==
    Returned =>
        /\ result.errors.defined <=> ~result.success
        /\ result.errors.header.defined <=>
              (Len(checkedHeader) = 0 \/ Len(missingFrom(checkedHeader)) > 0)
        /\ result.errors.rows.defined <=> failingRows # {}

\* a result with a header error and no row error, over at least one data row
C3_Witness ==
    /\ Returned
    /\ ~result.success
    /\ result.errors.header.defined
    /\ ~result.errors.rows.defined
    /\ Len(result.allRows) >= 1

\* C4: the keys of errors.rows are the zero-based positions in allRows of the rows that
\* fail validation, validRows is the validated values of the other rows in their order,
\* and allRows.length = validRows.length + number of row errors
C4_RowErrorsIndexed ==
    Returned =>
        LET passing == SelectSeq(result.allRows, LAMBDA row : ~rowFails(row))
        IN /\ DOMAIN result.errors.rows.value = failingRows
           /\ \A i \in failingRows :
                 result.errors.rows.value[i] = safeParse(schema, result.allRows[i + 1]).error
           /\ result.validRows = [i \in 1..Len(passing) |-> safeParse(schema, passing[i]).data]
           /\ Len(result.allRows) = Len(result.validRows) + Cardinality(failingRows)

\* the first data row fails and a later one passes
C4_Witness ==
    /\ Returned
    /\ 0 \in failingRows
    /\ 1 \notin failingRows
    /\ Len(result.allRows) >= 2
    /\ Len(result.validRows) >= 1

\* the header and the raw rows of the text, tokenized with the options of the call
headerOfText == extractHeadersFromContent(csvContent, options)
rowsOfText == getRowsFromContent(csvContent, schema, options)
headerComplete ==
    /\ headerOfText # UndefinedHeaders
    /\ \A i \in 1..Len(expectedNames) : expectedNames[i] \in Range(headerOfText)

\* C5: when the header has every schema field name and every data row passes
\* validation, the result has success = true, no errors and as many validRows as allRows
C5_AllValidSucceeds ==
    (pc = "done" /\ headerComplete /\ \A i \in 1..Len(rowsOfText) : ~rowFails(rowsOfText[i])) =>
        /\ ~result.thrown
        /\ result.success
        /\ ~result.errors.defined
        /\ Len(result.validRows) = Len(result.allRows)

\* C6: when the header lacks schema field names, errors.header is MISSING_COLUMN with
\* exactly the missing names joined in schema order
C6_MissingColumn ==
    (pc = "done" /\ headerOfText # UndefinedHeaders /\ Len(missingFrom(headerOfText)) > 0) =>
        /\ ~result.thrown
        /\ result.errors.header.defined
        /\ result.errors.header.value.errorCode = MISSING_COLUMN
        /\ result.errors.header.value.header = join(missingFrom(headerOfText), JOINER)

\* C7: for the empty text the call returns success = false and errors.header is
\* MISSING_HEADER with all schema field names joined
C7_EmptyContent ==
    (pc = "done" /\ csvContent = <<>>) =>
        /\ ~result.thrown
        /\ ~result.success
        /\ result.errors.header.defined
        /\ result.errors.header.value.errorCode = MISSING_HEADER
        /\ result.errors.header.value.header = join(expectedNames, JOINER)

\* the text split at the end of its header row: the header line and the data lines
commaInForce(text) == IF options.comma = NoOpt THEN detect(text) ELSE options.comma
quoteInForce == IF options.quote = NoOpt THEN DQ ELSE options.quote
firstLF == indexOfFrom(csvContent, 0, {LF})
headerRowIsFirstLine ==
    /\ firstLF # -1
    /\ Row(csvContent, 0, commaInForce(csvContent), quoteInForce, <<>>).p = firstLF + 1
dataLines == slice(csvContent, firstLF + 1, Len(csvContent))
CompleteHeaderLines == {join(expectedNames, <<Separators[i]>>) : i \in 1..Len(Separators)}
withHeader(h) == h \o <<LF>> \o dataLines
headerFaulty == Len(checkedHeader) = 0 \/ Len(missingFrom(checkedHeader)) > 0
completeFor(text) ==
    LET names == extractHeadersFromContent(text, NoOptions)
    IN names # UndefinedHeaders /\ Len(missingFrom(names)) = 0

\* C8: a text whose header misses columns gets the allRows, validRows and errors.rows
\* of the text with the same data lines under a complete header, and when the header
\* is faulty and a row fails the result has both errors.header and errors.rows
C8_HeaderErrorKeepsBody ==
    (Returned /\ headerFaulty) =>
        /\ failingRows # {} => (result.errors.header.defined /\ result.errors.rows.defined)
        /\ headerRowIsFirstLine =>
              \A h \in CompleteHeaderLines :
                  LET other == parseCSVContent(withHeader(h), schema, options)
                  IN (completeFor(withHeader(h)) /\ ~other.thrown) =>
                        /\ result.allRows = other.allRows
                        /\ result.validRows = other.validRows
                        /\ result.errors.rows = other.errors.rows

\* the rows of the text before any row is skipped
unskipped == [options EXCEPT !.skipEmptyLines = FALSE]
hasContent(cells) == \E i \in 1..Len(cells) : Len(cells[i]) > 0
keptPositions ==
    {i \in 1..Len(extractRows(csvContent, unskipped)) :
        hasContent(extractRows(csvContent, unskipped)[i])}
RECURSIVE pick(_, _, _)
pick(rows, keep, i) ==
    IF i > Len(rows) THEN <<>>
    ELSE (IF i \in keep THEN <<rows[i]>> ELSE <<>>) \o pick(rows, keep, i + 1)

\* C9: with skipEmptyLines, a data row is left out of allRows iff all its cells are
\* empty; a row with a non-empty cell stays
C9_SkipOnlyBlankRows ==
    (Returned /\ options.skipEmptyLines) =>
        result.allRows = pick(getRowsFromContent(csvContent, schema, unskipped), keptPositions, 1)

\* C10: the header error is the one the schema names give against result.header, the
\* first line tokenized with the delimiter and quote of the options
C10_HeaderCheckUsesOptions ==
    (Returned /\ result.header # UndefinedHeaders) =>
        /\ result.errors.header.defined <=>
              (Len(result.header) = 0 \/ Len(missingFrom(result.header)) > 0)
        /\ (result.errors.header.defined /\ Len(result.header) > 0) =>
              result.errors.header.value.header = join(missingFrom(result.header), JOINER)

\* the actual header has, for every schema field name, a cell equal to it once trimmed
presentAfterTrim ==
    \A i \in 1..Len(expectedNames) :
        \E j \in 1..Len(result.header) : trim(result.header[j]) = expectedNames[i]

\* C11: header cells match the schema field names by equality after trimming, so a
\* header whose cells differ from the names only by surrounding whitespace gets no
\* header error
C11_TrimmedHeaderMatches ==
    (Returned /\ result.header # UndefinedHeaders /\ presentAfterTrim) =>
        ~result.errors.header.defined

\* C12: a header line with every schema field name, in any order and with any extra
\* columns, gets no header error
C12_PresenceOnly ==
    (Returned /\ headerComplete) => ~result.errors.header.defined

\* the cells of the data lines as the tokenizer returns them
tokenizedRows == extractRows(csvContent, options)

\* C13: every entry of allRows has the schema field names as its keys; the Nth name
\* holds the Nth tokenized cell of the line, trimmed, or is absent when the line has
\* fewer than N cells; cells beyond the schema's fields are left out
C13_RowsPositional ==
    Returned =>
        /\ Len(result.allRows) = Len(tokenizedRows)
        /\ \A r \in 1..Len(result.allRows) :
              /\ DOMAIN result.allRows[r] = Range(expectedNames)
              /\ \A N \in 1..Len(expectedNames) :
                    result.allRows[r][expectedNames[N]] =
                        IF N > Len(tokenizedRows[r]) THEN UNDEF
                        ELSE trim(tokenizedRows[r][N])

\* a data line with fewer cells than the schema has fields, whose first cell is
\* surrounded by whitespace
C13_Witness ==
    /\ Returned
    /\ \E r \in 1..Len(tokenizedRows) :
          /\ Len(tokenizedRows[r]) < Len(expectedNames)
          /\ Len(tokenizedRows[r]) >= 1
          /\ trim(tokenizedRows[r][1]) # tokenizedRows[r][1]
          /\ result.allRows[r][expectedNames[1]] = trim(tokenizedRows[r][1])
          /\ result.allRows[r][expectedNames[2]] = UNDEF

(* ------------------------------------------------------------------ *)
(* Properties of the tokenizer as ./parse uses it                      *)
(* ------------------------------------------------------------------ *)
\* C14: a content written as a quoted field (outer quotes added, inner quotes doubled)
\* tokenizes back to exactly that content as one cell of its row, for the default and
\* for a configured delimiter and quote; the next line stays a row of its own
C14_QuotedRoundTrip ==
    pc = "tokenized" =>
        /\ result.header = << <<"x">>, csvContent >>
        /\ result.rows = << << <<"x">> >> >>

\* the content holds the delimiter, the quote character and a line break, under a
\* configured delimiter and quote
C14_Witness ==
    /\ pc = "tokenized"
    /\ options.comma # NoOpt
    /\ options.quote # NoOpt
    /\ {configuredComma, configuredQuote, LF} \subseteq Range(csvContent)
    /\ result.header[2] = csvContent

(* ------------------------------------------------------------------ *)
(* Properties of parseRow                                              *)
(* ------------------------------------------------------------------ *)
\* the rows the line gives when tokenized on its own with the delimiter and quote of
\* the call, and the raw row of its cells
lineRows == csv_parse(csvContent, [options EXCEPT !.comma = configuredComma])
rawRowOfLine ==
    [name \in Range(expectedNames) |->
        LET N == CHOOSE i \in 1..Len(expectedNames) : expectedNames[i] = name
        IN IF N > Len(lineRows[1]) THEN UNDEF ELSE trim(lineRows[1][N])]

\* C15: for a single data line, parseRow returns success with the validated value when
\* the raw row of the line passes validation, and otherwise failure with exactly one
\* error, the validation error of that row
C15_ParseRow ==
    (pc = "row" /\ Len(lineRows) = 1) =>
        /\ ~result.thrown
        /\ IF rowFails(rawRowOfLine)
           THEN /\ ~result.success
                /\ result.errors = <<safeParse(schema, rawRowOfLine).error>>
           ELSE /\ result.success
                /\ result.row = safeParse(schema, rawRowOfLine).data

\* C29: when parseRow returns success, its row is a validated value of the schema:
\* it is not undefined and it is what validation gives for a row of the line
C29_SuccessHasRow ==
    (pc = "row" /\ ~result.thrown /\ result.success) =>
        /\ result.row # UNDEF
        /\ \E i \in 1..Len(lineRows) :
               LET raw == [name \in Range(expectedNames) |->
                              LET N == CHOOSE k \in 1..Len(expectedNames) : expectedNames[k] = name
                              IN IF N > Len(lineRows[i]) THEN UNDEF ELSE trim(lineRows[i][N])]
               IN safeParse(schema, raw).success /\ result.row = safeParse(schema, raw).data

(* ------------------------------------------------------------------ *)
(* Properties of parseCSVContent on its own output written as CSV      *)
(* ------------------------------------------------------------------ *)
\* a cell has to be quoted when it holds a delimiter, a quote or a line break
needsQuoting(cell) ==
    Range(cell) \cap (Range(Separators) \cup {configuredComma, configuredQuote, LF, CR}) # {}

\* an absent cell is written as the empty cell
serializeCell(cell) ==
    IF cell = UNDEF THEN <<>>
    ELSE IF needsQuoting(cell) THEN quotedField(cell, configuredQuote)
    ELSE cell

serializeRow(row) ==
    join([i \in 1..Len(expectedNames) |-> serializeCell(row[expectedNames[i]])],
         <<configuredComma>>)

\* result.allRows as CSV: the schema's field names, then one line per row
serializedAllRows ==
    join(<<join(expectedNames, <<configuredComma>>)>>
            \o [r \in 1..Len(result.allRows) |-> serializeRow(result.allRows[r])],
         <<LF>>)

reparsed == parseCSVContent(serializedAllRows, schema, options)

\* C21: parsing allRows written back as CSV, with the same schema and options, gives
\* the validRows of the first parse
C21_Idempotent ==
    Returned => (~reparsed.thrown /\ reparsed.validRows = result.validRows)

(* ------------------------------------------------------------------ *)
(* Properties of the schema helpers                                    *)
(* ------------------------------------------------------------------ *)
\* C22: a helper validating the empty cell gives what the schema it wraps gives for
\* undefined: a failure when the schema is required, undefined when it is optional,
\* the default when it has one
C22_EmptyIsAbsent ==
    (pc = "validated" /\ csvContent = Str(<<>>)) =>
        /\ result = wrapped_safeParse(schema.helper, schema.wrapped, Undefined)
        /\ schema.wrapped = "required" => ~result.success
        /\ schema.wrapped = "optional" => result = Valid(Undefined)
        /\ schema.wrapped = "default" => result = Valid(defaultOf(schema.helper))

\* the number helper has validated the empty cell against a required number
C22_Witness ==
    /\ pc = "validated"
    /\ csvContent = Str(<<>>)
    /\ schema = [helper |-> "number", wrapped |-> "required"]
    /\ ~result.success

(* ------------------------------------------------------------------ *)
(* Properties of the safe-newline scan                                 *)
(* ------------------------------------------------------------------ *)
\* the index of the newline that ends the first row of the text for the tokenizer,
\* -1 when the first row is not ended by a newline
rowBoundary(text, quote) ==
    LET closed(r) == IF r.p >= 1 /\ Len(r.row) > 0 /\ text[r.p] = LF THEN r.p - 1 ELSE -1
    IN closed(Row(text, 0, detect(text), quote, <<>>))

\* C23: with default options findSafeNewlinePosition returns the index of the first
\* newline the tokenizer takes for a row boundary, and -1 when there is none
C23_ScanFindsRowBoundary ==
    (pc = "scanned" /\ options = NoOptions) =>
        result.position = rowBoundary(csvContent, DQ)

\* C24: with another quote character configured, findSafeNewlinePosition returns the
\* index of the first newline outside the fields enclosed in that character, the
\* double quote being an ordinary character
C24_ScanUsesConfiguredQuote ==
    (pc = "scanned" /\ options.quote = SQ) =>
        result.position = rowBoundary(csvContent, SQ)

(* ------------------------------------------------------------------ *)
(* Properties of the stream's row processing                           *)
(* ------------------------------------------------------------------ *)
\* what was written after the header chunks
bodyOfWritten == SubSeq(written, Len(written) - bodyWritten + 1, Len(written))
\* the one line written after the header, without its newline
lineOfWritten == SubSeq(bodyOfWritten, 1, Len(bodyOfWritten) - 1)
lineCells == csv_parse(lineOfWritten, options)[1]

\* a header line was written, then one line without quotes and its newline
OneLineWritten ==
    /\ ended = 0
    /\ bodyWritten >= 1
    /\ Len(written) > bodyWritten
    /\ written[Len(written) - bodyWritten] = LF
    /\ \A i \in 1..(Len(written) - bodyWritten - 1) : written[i] # LF
    /\ written[Len(written)] = LF
    /\ Range(lineOfWritten) \cap {LF, DQ, BS} = {}
    /\ Len(csv_parse(lineOfWritten, options)) = 1

\* the raw row of the line: one key per header name, the cell at the position of the
\* name, undefined where the line has no cell at that position
rawRowOfCells ==
    reduceToObject(headers,
        [i \in 1..Len(headers) |-> IF i > Len(lineCells) THEN UNDEF ELSE lineCells[i]])

eventOfRawRow ==
    LET emitted(parsed) ==
            IF parsed.success
            THEN [event |-> "data", payload |-> parsed.data]
            ELSE [event |-> "error",
                  payload |-> [index |-> 0, row |-> rawRowOfCells, error |-> parsed.error]]
    IN emitted(safeParse(schema, rawRowOfCells))

\* C25: the row of a data line has one key per header name, undefined for the fields
\* the line has no cell for, nothing for the cells beyond the header; it is the row
\* that is validated and the row an error event carries
C25_RawRow ==
    OneLineWritten => events = <<[event |-> "headers", payload |-> headers], eventOfRawRow>>

(* ------------------------------------------------------------------ *)
(* Properties of the while loop of processBuffer                       *)
(* ------------------------------------------------------------------ *)
\* C26: a pass of the row loop that does not leave the loop drops the buffer's first
\* segment and its newline, whether the segment was tokenized or not, so the buffer
\* gets strictly shorter and the loop ends
C26_LoopShortens ==
    [][(InLoop /\ pc' = pc) =>
          /\ Len(buffer') < Len(buffer)
          /\ findSafeNewlinePosition(buffer) >= 0
          /\ buffer' = slice(buffer, findSafeNewlinePosition(buffer) + 1, Len(buffer))]_vars

\* a write() is in its loop after the tokenizer failed on a segment: nothing was emitted
\* for it and the rest of the chunk, with a row in it, is still to be processed
C26_Witness ==
    /\ pc = "write"
    /\ result.logged
    /\ rowIndex = 0
    /\ findSafeNewlinePosition(buffer) >= 0

\* C27: when a write() has returned and the header is resolved, the buffer has no safe
\* newline and is the written text after its last safe newline; when end() has
\* returned and no segment failed to tokenize, no row is left in the buffer
C27_BufferInvariant ==
    Idle =>
        /\ (ended = 0 /\ headersParsed) =>
               /\ findSafeNewlinePosition(buffer) = -1
               /\ buffer = unterminatedTail(written)
        /\ (ended = 1 /\ ~result.logged) => Len(trim(buffer)) = 0

\* a write() has returned after a segment failed to tokenize and was dropped; the
\* buffer holds the text after it, which has a line break inside quotes
C27_Witness ==
    /\ Idle
    /\ ended = 0
    /\ headersParsed
    /\ result.logged
    /\ LF \in Range(buffer)

(* ------------------------------------------------------------------ *)
(* Properties of zodKeys                                               *)
(* ------------------------------------------------------------------ *)
\* the names a field gives: parent.child for every child of a field that is an object
\* of cells, parent for a field that is a cell
namesOfField(entry) ==
    IF entry.value.type = "object"
    THEN [i \in 1..Len(entry.value.fields) |-> entry.key \o <<".">> \o entry.value.fields[i].key]
    ELSE <<entry.key>>

RECURSIVE namesOfFields(_)
namesOfFields(entries) ==
    IF Len(entries) = 0 THEN <<>>
    ELSE namesOfField(Head(entries)) \o namesOfFields(Tail(entries))

\* every field is a cell or an object with cells in it
PlainFields(object) ==
    \A i \in 1..Len(object.fields) :
        object.fields[i].value \in LeafSchemas \cup InnerObjects

\* C28: an object schema wrapped in one optional, nullable, array or refinement layer
\* has the field names of the bare object, in order; a field that is an object gives
\* parent.child for its names and a cell gives parent; any other schema has no names
C28_ZodKeys ==
    pc = "keys" =>
        /\ (schema \in ObjectSchemas /\ PlainFields(schema)) =>
               result.keys = namesOfFields(schema.fields)
        /\ schema \in WrappedOnce =>
               /\ result.keys = zodKeys(schema.inner[1])
               /\ PlainFields(schema.inner[1]) =>
                      result.keys = namesOfFields(schema.inner[1].fields)
        /\ schema \in OtherSchemas => result.keys = <<>>

\* the names of a refined object whose second field is an object were read
C28_Witness ==
    /\ pc = "keys"
    /\ schema.type = "effects"
    /\ schema.inner[1] \in ObjectSchemas
    /\ result.keys = <<<<"n">>, <<"g", ".", "a">>, <<"g", ".", "b">>>>

(* ------------------------------------------------------------------ *)
(* Properties of the stream with a re-entrant listener                 *)
(* ------------------------------------------------------------------ *)
errorIndices == [i \in 1..Len(eventsOf("error")) |-> eventsOf("error")[i].payload.index]

\* C30: when a data or error listener writes to the stream from inside write(), every
\* row of all the text written still gives exactly one event, and the indices of the
\* error events are strictly increasing
C30_ExactlyOnceReentrant ==
    ended = 1 =>
        /\ rowEvents = rowEventsOfWritten
        /\ \A i \in 1..(Len(errorIndices) - 1) : errorIndices[i] < errorIndices[i + 1]

====
